---- MODULE Spec2Model ----
(***************************************************************************)
(* Volumetric fire (THREE.Fire): the Fire (GLSL), FireTSL and NodeFire     *)
(* meshes, their per-frame update protocol, the React frame loop around    *)
(* them, and the fragment programs that ray-march the density sampler.     *)
(*                                                                         *)
(* Numbers are fixed-point decimals with four fractional digits (One is    *)
(* 1.0), so that the program's constants 0.0288, 1.3, 0.3, 0.5 and 19.19   *)
(* are exact.  Products, quotients and square roots round down to that     *)
(* grid.  Vectors are tuples of such numbers.  A world matrix is a scale   *)
(* and a translation (the node is never rotated and has no parent).        *)
(***************************************************************************)
EXTENDS Integers, Sequences, FiniteSets, TLC

VARIABLES
    kind,         \* class of the instance: "Fire", "FireTSL" or "NodeFire"
    _time,        \* the private field _time
    uniforms,     \* the record the accessors read and write
    nodes,        \* NodeFire only: the uniform nodes createMaterial built
    program,      \* loop bounds compiled into the material's program
    textures,     \* filter and wrap settings of every texture object
    position,     \* the node's position (Object3D.position)
    scale,        \* the node's scale (Object3D.scale)
    matrixWorld,  \* the node's cached world matrix
    clock,        \* elapsed time of the renderer (TSL's built-in time node)
    last,         \* the last operation called and its argument
    component,    \* React component around the instance, or None
    pc,           \* position in the frame: "idle" or "render"
    rendered,     \* what the last render of a frame read
    frag,         \* inputs of the fragment being shaded
    glsl,         \* state of the GLSL fragment program's main()
    tsl,          \* state of the TSL fragment node
    sample,       \* result of the last direct call of the density samplers
    peer          \* seed uniform of a second instance, constructed independently

instVars == <<kind, _time, uniforms, nodes, program, textures>>
nodeVars == <<position, scale, matrixWorld>>
reactVars == <<component, pc, rendered>>
shaderVars == <<frag, glsl, tsl, sample>>
vars == <<instVars, nodeVars, clock, last, reactVars, shaderVars, peer>>

\* an optional value: None (undefined, absent) or Some(v)
None == <<>>
Some(v) == <<v>>

\* a parameter default of the constructor: replaces undefined only
Default(opt, d) == IF opt = None THEN d ELSE opt[1]

Null == "null"

-----------------------------------------------------------------------------
(* Fixed-point arithmetic *)

One == 10^4

Num(k) == k * One

\* a * b, rounded down; the operands are split so that no product overflows
Mul(a, b) ==
    LET ai == a \div One
        af == a % One
        bi == b \div One
        bf == b % One
    IN  ai * bi * One + ai * bf + af * bi + (af * bf) \div One

Div(a, b) == IF b > 0 THEN (a * One) \div b ELSE -((a * One) \div (-b))

RECURSIVE ISqrtIn(_, _, _)
ISqrtIn(m, lo, hi) ==
    IF lo >= hi THEN lo
    ELSE LET mid == (lo + hi + 1) \div 2
         IN  IF mid * mid <= m THEN ISqrtIn(m, mid, hi) ELSE ISqrtIn(m, lo, mid - 1)

\* sqrt(a) for a >= 0, rounded down (to three digits above 20.0)
Sqrt(a) ==
    IF a < 20 * One THEN ISqrtIn(a * One, 0, 46340)
    ELSE 10 * ISqrtIn(a * 100, 0, 46340)

Clamp01(a) == IF a < 0 THEN 0 ELSE IF a > One THEN One ELSE a

Abs(a) == IF a < 0 THEN -a ELSE a

Dot2(a, b) == Mul(a[1], b[1]) + Mul(a[2], b[2])
Dot3(a, b) == Mul(a[1], b[1]) + Mul(a[2], b[2]) + Mul(a[3], b[3])
Length3(v) == Sqrt(Dot3(v, v))
Add3(a, b) == <<a[1] + b[1], a[2] + b[2], a[3] + b[3]>>
Sub3(a, b) == <<a[1] - b[1], a[2] - b[2], a[3] - b[3]>>
Scale3(v, k) == <<Mul(v[1], k), Mul(v[2], k), Mul(v[3], k)>>
Mul3(a, b) == <<Mul(a[1], b[1]), Mul(a[2], b[2]), Mul(a[3], b[3])>>
Add4(a, b) == <<a[1] + b[1], a[2] + b[2], a[3] + b[3], a[4] + b[4]>>
DivideBy(v, len) == <<Div(v[1], len), Div(v[2], len), Div(v[3], len)>>
Normalize(v) == DivideBy(v, Length3(v))

Zero4 == <<0, 0, 0, 0>>

-----------------------------------------------------------------------------
(* Matrices: scale s and translation t stand for x |-> s * x + t *)

Identity == [s |-> <<One, One, One>>, t |-> <<0, 0, 0>>]

\* Object3D.updateMatrix composes the local matrix from position and scale
Compose(pos, scl) == [s |-> scl, t |-> pos]

\* Matrix4.invert
Invert(m) ==
    [s |-> <<Div(One, m.s[1]), Div(One, m.s[2]), Div(One, m.s[3])>>,
     t |-> <<-Div(m.t[1], m.s[1]), -Div(m.t[2], m.s[2]), -Div(m.t[3], m.s[3])>>]

\* (m * vec4(p, 1.0)).xyz
Apply(m, p) == Add3(Mul3(m.s, p), m.t)

\* the matrix product a * b
MatMul(a, b) == [s |-> Mul3(a.s, b.s), t |-> Apply(a, b.t)]

-----------------------------------------------------------------------------
(* Program constants *)

DefaultColor == 15658734
DefaultIterations == 20
DefaultOctaves == 3
DefaultMagnitude == 13000
DefaultLacunarity == 20000
DefaultGain == 5000
DefaultNoiseScale == <<Num(1), Num(2), Num(1), 3000>>
SeedRange == 191900
RayStep == 288
TSLOctaves == 3

-----------------------------------------------------------------------------
(* Bounds and input sets *)

MaxTime == 2
MaxClock == 1

Kinds == {"Fire", "FireTSL", "NodeFire"}

\* times passed to update and the time setter, in whole seconds
Times == {Num(k) : k \in 0 .. MaxTime}

\* values assigned to magnitude, lacunarity and gain: inside and outside the
\* documented ranges
Numbers == {-One, 0, 25000}

\* Math.random() * 19.19 for Math.random() = 0 and 0.5
Seeds == {0, SeedRange \div 2}

TextureIds == {"texA", "texB"}

\* colour arguments: a Color object, a hex integer, a CSS colour name
Colors ==
    {[type |-> "Color", ref |-> "c1", hex |-> 16729088, css |-> ""],
     [type |-> "number", ref |-> "", hex |-> 255, css |-> ""],
     [type |-> "string", ref |-> "", hex |-> 0, css |-> "orange"]}

Positions == {<<0, 0, 0>>, <<Num(1), 0, Num(-2)>>}
Scales == {<<Num(1), Num(1), Num(1)>>, <<Num(2), Num(4), Num(4)>>}

\* constructor arguments: the texture alone, and the spec's scenario
OnlyTexture ==
    [fireTex |-> "texA", color |-> None, iterations |-> None, octaves |-> None,
     noiseScale |-> None, magnitude |-> None, lacunarity |-> None, gain |-> None]
Scenario ==
    [fireTex |-> "texB",
     color |-> Some([type |-> "number", ref |-> "", hex |-> 16729088, css |-> ""]),
     iterations |-> Some(30), octaves |-> Some(5),
     noiseScale |-> Some(<<Num(2), Num(3), Num(2), 5000>>),
     magnitude |-> Some(25000), lacunarity |-> Some(Num(3)), gain |-> Some(8000)]
\* values outside the documented ranges, and counts of 0
Degenerate ==
    [fireTex |-> "texA",
     color |-> Some([type |-> "number", ref |-> "", hex |-> 0, css |-> ""]),
     iterations |-> Some(0), octaves |-> Some(0),
     noiseScale |-> Some(<<0, 0, 0, 0>>),
     magnitude |-> Some(-One), lacunarity |-> Some(One \div 2), gain |-> Some(15000)]
\* some of the optional arguments only
Partial ==
    [OnlyTexture EXCEPT !.magnitude = Some(0), !.octaves = Some(1),
                        !.color = Some([type |-> "Color", ref |-> "c0", hex |-> 16729088,
                                        css |-> ""])]
PropsSet == {OnlyTexture, Scenario, Degenerate, Partial}
\* no density texture passed
NoTexture == [OnlyTexture EXCEPT !.fireTex = Null]

-----------------------------------------------------------------------------
(* Construction *)

\* new Color(name) for the CSS names used here
NamedColor(name) == IF name = "orange" THEN 16753920 ELSE 0

\* color instanceof Color ? color : new Color(color)
ToColor(c) ==
    IF c.type = "Color" THEN c
    ELSE [type |-> "Color", ref |-> "new",
          hex |-> IF c.type = "number" THEN c.hex ELSE NamedColor(c.css),
          css |-> ""]

HexColor(h) == [type |-> "number", ref |-> "", hex |-> h, css |-> ""]

LinearClamp ==
    [magFilter |-> "LinearFilter", minFilter |-> "LinearFilter",
     wrapS |-> "ClampToEdgeWrapping", wrapT |-> "ClampToEdgeWrapping"]

\* a configuration that sets the filters and leaves the wrap modes
ConfigureFiltersOnly(texs, id) ==
    [texs EXCEPT ![id].magFilter = "LinearFilter", ![id].minFilter = "LinearFilter"]

\* texture.magFilter = texture.minFilter = LinearFilter; wrapS = wrapT = clamp
ConfigureTexture(texs, id) == [texs EXCEPT ![id] = LinearClamp]

\* settings of the textures before any instance binds them
LoadedTextures ==
    [id \in TextureIds |->
        [magFilter |-> "LinearFilter", minFilter |-> "LinearMipmapLinearFilter",
         wrapS |-> IF id = "texA" THEN "ClampToEdgeWrapping" ELSE "RepeatWrapping",
         wrapT |-> IF id = "texA" THEN "ClampToEdgeWrapping" ELSE "RepeatWrapping"]]

\* a constructor that keeps magnitude non-negative
ConstructUniformsClamped(k, props, seed) ==
    [fireTex |-> props.fireTex,
     color |-> ToColor(Default(props.color, HexColor(DefaultColor))),
     time |-> 0,
     seed |-> seed,
     invModelMatrix |-> IF k = "NodeFire" THEN None ELSE Some(Identity),
     scale |-> IF k = "NodeFire" THEN None ELSE Some(<<One, One, One>>),
     noiseScale |-> Default(props.noiseScale, DefaultNoiseScale),
     magnitude |-> IF Default(props.magnitude, DefaultMagnitude) < 0 THEN 0
                   ELSE Default(props.magnitude, DefaultMagnitude),
     lacunarity |-> Default(props.lacunarity, DefaultLacunarity),
     gain |-> Default(props.gain, DefaultGain),
     iterations |-> IF k = "NodeFire"
                    THEN Some(Default(props.iterations, DefaultIterations)) ELSE None,
     octaves |-> IF k = "NodeFire"
                 THEN Some(Default(props.octaves, DefaultOctaves)) ELSE None]

\* the uniform values the constructor of class k stores
ConstructUniforms(k, props, seed) ==
    [fireTex |-> props.fireTex,
     color |-> ToColor(Default(props.color, HexColor(DefaultColor))),
     time |-> 0,
     seed |-> seed,
     invModelMatrix |-> IF k = "NodeFire" THEN None ELSE Some(Identity),
     scale |-> IF k = "NodeFire" THEN None ELSE Some(<<One, One, One>>),
     noiseScale |-> Default(props.noiseScale, DefaultNoiseScale),
     magnitude |-> Default(props.magnitude, DefaultMagnitude),
     lacunarity |-> Default(props.lacunarity, DefaultLacunarity),
     gain |-> Default(props.gain, DefaultGain),
     iterations |-> IF k = "NodeFire"
                    THEN Some(Default(props.iterations, DefaultIterations)) ELSE None,
     octaves |-> IF k = "NodeFire"
                 THEN Some(Default(props.octaves, DefaultOctaves)) ELSE None]

\* NodeFireShader.createMaterial: uniform nodes built from the values of the
\* merged uniforms at that moment
CreateMaterialNodes(u) ==
    [fireTex |-> u.fireTex, color |-> u.color, time |-> u.time, seed |-> u.seed,
     noiseScale |-> u.noiseScale, magnitude |-> u.magnitude]

\* counts defaulted with ||: a supplied 0 gives way to the default too
CountOrDefault(opt, d) == IF opt = None THEN d ELSE IF opt[1] = 0 THEN d ELSE opt[1]
ConstructProgramFalsy(k, props) ==
    [iterations |-> CountOrDefault(props.iterations, DefaultIterations),
     octaves |-> CASE k = "Fire" -> Some(CountOrDefault(props.octaves, DefaultOctaves))
                   [] k = "FireTSL" -> Some(TSLOctaves)
                   [] OTHER -> None]

\* a TSL backend that builds its turbulence with the supplied octave count
ConstructProgramTakesOctaves(k, props) ==
    [iterations |-> Default(props.iterations, DefaultIterations),
     octaves |-> IF k \in {"Fire", "FireTSL"}
                 THEN Some(Default(props.octaves, DefaultOctaves)) ELSE None]

\* the loop bounds fixed in the program built at construction
ConstructProgram(k, props) ==
    [iterations |-> Default(props.iterations, DefaultIterations),
     octaves |-> CASE k = "Fire" -> Some(Default(props.octaves, DefaultOctaves))
                   [] k = "FireTSL" -> Some(TSLOctaves)
                   [] OTHER -> None]

NoFragment == [worldPos |-> <<0, 0, 0>>, camera |-> <<0, 0, 0>>, tslKernel |-> "perlin"]
\* a fragment program's run: col is the variable col of main, acc the sum of
\* the samples as it stood when the loop was left
NotRunning ==
    [pc |-> "off", i |-> 0, rayPos |-> <<0, 0, 0>>, col |-> Zero4, acc |-> Zero4,
     calls |-> <<>>]
NoSample ==
    [p |-> <<0, 0, 0>>, glsl |-> Zero4, tsl |-> Zero4, node |-> Zero4, turb |-> 0,
     inputs |-> <<>>, st |-> [glsl |-> <<0, Some(0)>>, tsl |-> <<0, Some(0)>>]]

\* the constructors configure the texture without testing it:
\* fireTex.magFilter = ... on a missing texture is a TypeError
Throws(k, props) == props.fireTex = Null

Constructed(k, props, seed) ==
    /\ kind = k
    /\ _time = 0
    /\ uniforms = ConstructUniforms(k, props, seed)
    /\ nodes = IF k = "NodeFire" THEN Some(CreateMaterialNodes(uniforms)) ELSE None
    /\ program = ConstructProgram(k, props)
    /\ textures = IF Throws(k, props) THEN LoadedTextures
                  ELSE ConfigureTexture(LoadedTextures, props.fireTex)
    /\ position = <<0, 0, 0>>
    /\ scale = <<One, One, One>>
    /\ matrixWorld = Identity
    /\ clock = 0
    /\ last = [op |-> "new", arg |-> Some(props)]

\* the state after new Fire(props), new FireTSL(props) or new NodeFire(props),
\* for props drawn from propsSet and Math.random() * 19.19 from seeds;
\* pc = "thrown" when the constructor threw
InitFrom(propsSet, seeds) ==
    /\ \E k \in Kinds, props \in propsSet, seed \in seeds :
          /\ Constructed(k, props, seed)
          /\ pc = IF Throws(k, props) THEN "thrown" ELSE "idle"
    /\ peer \in seeds
    /\ component = None
    /\ rendered = None
    /\ frag = NoFragment
    /\ glsl = NotRunning
    /\ tsl = NotRunning
    /\ sample = NoSample

Init == InitFrom(PropsSet, Seeds)

-----------------------------------------------------------------------------
(* The instance's operations *)

\* variants of the test on the argument: if (time), and a default of 0
TimeAfterUpdateTruthy(old, t) == IF t # None /\ t[1] # 0 THEN t[1] ELSE old
TimeAfterUpdateDefaultZero(old, t) == IF t # None THEN t[1] ELSE 0

\* an update that takes its argument for a time step: this._time += time
TimeAfterUpdateAdds(old, t) == IF t # None THEN old + t[1] ELSE old

\* if (time !== undefined) { this._time = time; uniforms.time = time }
TimeAfterUpdate(old, t) == IF t # None THEN t[1] ELSE old

\* Object3D.updateMatrixWorld: the world matrix recomposed from the node's
\* position and scale
UpdateMatrixWorld(pos, scl) == Compose(pos, scl)

\* an update that merges the default uniforms back in before it stores the time
UpdateUniformsResetsCounts(k, u, t, mw, scl) ==
    IF k = "NodeFire"
    THEN [u EXCEPT !.time = IF t # None THEN t[1] ELSE u.time,
                   !.iterations = Some(DefaultIterations),
                   !.octaves = Some(DefaultOctaves)]
    ELSE [u EXCEPT !.time = IF t # None THEN t[1] ELSE u.time,
                   !.invModelMatrix = Some(Invert(mw)),
                   !.scale = Some(scl)]

\* an update that copies the node's scale into the noise scale uniform
UpdateUniformsWrongVector(k, u, t, mw, scl) ==
    IF k = "NodeFire"
    THEN [u EXCEPT !.time = IF t # None THEN t[1] ELSE u.time]
    ELSE [u EXCEPT !.time = IF t # None THEN t[1] ELSE u.time,
                   !.invModelMatrix = Some(Invert(mw)),
                   !.noiseScale = <<scl[1], scl[2], scl[3], u.noiseScale[4]>>]

\* an update that draws the seed again on every call
UpdateUniformsReseeds(k, u, t, mw, scl) ==
    IF k = "NodeFire"
    THEN [u EXCEPT !.time = TimeAfterUpdate(u.time, t),
                   !.seed = (u.seed + One) % SeedRange]
    ELSE [u EXCEPT !.time = TimeAfterUpdate(u.time, t),
                   !.invModelMatrix = Some(Invert(mw)),
                   !.scale = Some(scl),
                   !.seed = (u.seed + One) % SeedRange]

\* the uniforms after update(t); mw is the world matrix just recomputed.
\* NodeFire.update stores the time and nothing else.
UpdateUniforms(k, u, t, mw, scl) ==
    IF k = "NodeFire"
    THEN [u EXCEPT !.time = TimeAfterUpdate(u.time, t)]
    ELSE [u EXCEPT !.time = TimeAfterUpdate(u.time, t),
                   !.invModelMatrix = Some(Invert(mw)),
                   !.scale = Some(scl)]

\* the body of update(t), shared by every caller
DoUpdate(t) ==
    /\ _time' = TimeAfterUpdate(_time, t)
    /\ matrixWorld' = UpdateMatrixWorld(position, scale)
    /\ uniforms' = UpdateUniforms(kind, uniforms, t, matrixWorld', scale)
    /\ UNCHANGED <<kind, nodes, program, textures>>

Update(t) ==
    /\ pc = "idle"
    /\ DoUpdate(t)
    /\ UNCHANGED <<position, scale>>
    /\ last' = [op |-> "update", arg |-> t]
    /\ UNCHANGED <<clock, peer, reactVars, shaderVars>>

\* a time setter that stores the field and leaves the uniform alone
SetTimeFieldOnly(u, v) == u

\* set time(value)
SetTimeUniforms(u, v) == [u EXCEPT !.time = v]
SetTime(v) ==
    /\ pc = "idle"
    /\ _time' = v
    /\ uniforms' = SetTimeUniforms(uniforms, v)
    /\ last' = [op |-> "time", arg |-> Some(v)]
    /\ UNCHANGED <<kind, nodes, program, textures, nodeVars, clock, peer, reactVars, shaderVars>>

\* a setter that keeps magnitude non-negative
SetMagnitudeClamped(u, v) == [u EXCEPT !.magnitude = IF v < 0 THEN 0 ELSE v]

\* set magnitude(value)
SetMagnitudeUniforms(u, v) == [u EXCEPT !.magnitude = v]
SetMagnitude(v) ==
    /\ pc = "idle"
    /\ uniforms' = SetMagnitudeUniforms(uniforms, v)
    /\ last' = [op |-> "magnitude", arg |-> Some(v)]
    /\ UNCHANGED <<kind, _time, nodes, program, textures, nodeVars, clock, peer, reactVars,
                   shaderVars>>

\* set lacunarity(value)
SetLacunarityUniforms(u, v) == [u EXCEPT !.lacunarity = v]
SetLacunarity(v) ==
    /\ pc = "idle"
    /\ uniforms' = SetLacunarityUniforms(uniforms, v)
    /\ last' = [op |-> "lacunarity", arg |-> Some(v)]
    /\ UNCHANGED <<kind, _time, nodes, program, textures, nodeVars, clock, peer, reactVars,
                   shaderVars>>

\* a gain setter that puts lacunarity back to its default
SetGainResetsLacunarity(u, v) == [u EXCEPT !.gain = v, !.lacunarity = DefaultLacunarity]

\* set gain(value)
SetGainUniforms(u, v) == [u EXCEPT !.gain = v]
SetGain(v) ==
    /\ pc = "idle"
    /\ uniforms' = SetGainUniforms(uniforms, v)
    /\ last' = [op |-> "gain", arg |-> Some(v)]
    /\ UNCHANGED <<kind, _time, nodes, program, textures, nodeVars, clock, peer, reactVars,
                   shaderVars>>

\* a setter that always builds a new Color, copying a Color argument
SetFireColorCopies(u, c) ==
    [u EXCEPT !.color = [type |-> "Color", ref |-> "new",
                         hex |-> IF c.type = "string" THEN NamedColor(c.css) ELSE c.hex,
                         css |-> ""]]

\* set fireColor(color)
SetFireColorUniforms(u, c) == [u EXCEPT !.color = ToColor(c)]
SetFireColor(c) ==
    /\ pc = "idle"
    /\ uniforms' = SetFireColorUniforms(uniforms, c)
    /\ last' = [op |-> "fireColor", arg |-> Some(c)]
    /\ UNCHANGED <<kind, _time, nodes, program, textures, nodeVars, clock, peer, reactVars,
                   shaderVars>>

\* the getters
GetTime == _time
GetMagnitude == uniforms.magnitude
GetLacunarity == uniforms.lacunarity
GetGain == uniforms.gain
GetFireColor == uniforms.color

\* NodeFire only: set fireTex(texture); a null texture is stored unconfigured
SetFireTexTextures(texs, tex) == IF tex # Null THEN ConfigureTexture(texs, tex) ELSE texs
SetFireTex(tex) ==
    /\ pc = "idle"
    /\ kind = "NodeFire"
    /\ uniforms' = [uniforms EXCEPT !.fireTex = tex]
    /\ textures' = SetFireTexTextures(textures, tex)
    /\ last' = [op |-> "fireTex", arg |-> Some(tex)]
    /\ UNCHANGED <<kind, _time, nodes, program, nodeVars, clock, peer, reactVars, shaderVars>>

\* NodeFire only: set noiseScale(value) and set seed(value)
SetNoiseScale(v) ==
    /\ pc = "idle"
    /\ kind = "NodeFire"
    /\ uniforms' = [uniforms EXCEPT !.noiseScale = v]
    /\ last' = [op |-> "noiseScale", arg |-> Some(v)]
    /\ UNCHANGED <<kind, _time, nodes, program, textures, nodeVars, clock, peer, reactVars,
                   shaderVars>>

SetSeed(v) ==
    /\ pc = "idle"
    /\ kind = "NodeFire"
    /\ uniforms' = [uniforms EXCEPT !.seed = v]
    /\ last' = [op |-> "seed", arg |-> Some(v)]
    /\ UNCHANGED <<kind, _time, nodes, program, textures, nodeVars, clock, peer, reactVars,
                   shaderVars>>

\* the host moves or rescales the node
SetPosition(p) ==
    /\ pc = "idle"
    /\ position' = p
    /\ last' = [op |-> "position", arg |-> Some(p)]
    /\ UNCHANGED <<instVars, scale, matrixWorld, clock, peer, reactVars, shaderVars>>

SetScale(s) ==
    /\ pc = "idle"
    /\ scale' = s
    /\ last' = [op |-> "scale", arg |-> Some(s)]
    /\ UNCHANGED <<instVars, position, matrixWorld, clock, peer, reactVars, shaderVars>>

\* the renderer's clock advances
Tick ==
    /\ pc = "idle"
    /\ clock < Num(MaxClock)
    /\ clock' = clock + One
    /\ UNCHANGED <<instVars, nodeVars, peer, last, reactVars, shaderVars>>

-----------------------------------------------------------------------------
(* What the material's program reads *)

\* the value the bound material holds for a parameter, None when the material
\* has no uniform for it
MaterialValue(field) ==
    IF kind = "NodeFire"
    THEN IF field \in DOMAIN nodes[1] THEN Some(nodes[1][field]) ELSE None
    ELSE Some(uniforms[field])

\* (seed + time) * scale.w, the amount the sampler moves p.y down by
TimeOffset(seed, time, noiseScale) == Mul(seed + time, noiseScale[4])

\* samplerFire (GLSL): p.y -= (seed + time) * scale.w, all three uniforms
GLSLOffset(u) == TimeOffset(u.seed, u.time, u.noiseScale)

\* createSamplerFire (TSL): uniforms.seed.add(time).mul(scaleVec.w), where time
\* is the built-in time node imported from three/tsl, not uniforms.time
TSLOffset(u, builtinTime) == TimeOffset(u.seed, builtinTime, u.noiseScale)

\* fireNode (NodeFireShader): mul(add(seed, time), scale.w) on the nodes
NodeOffset(n) == TimeOffset(n.seed, n.time, n.noiseScale)

\* the offset the instance's material uses at the next render
SamplerOffset ==
    CASE kind = "Fire" -> GLSLOffset(uniforms)
      [] kind = "FireTSL" -> TSLOffset(uniforms, clock)
      [] OTHER -> NodeOffset(nodes[1])

-----------------------------------------------------------------------------
(* Spec: the update protocol on one instance whose node the host moves *)

Next ==
    \/ \E t \in Times : Update(Some(t))
    \/ Update(None)
    \/ \E v \in Times : SetTime(v)
    \/ \E p \in Positions : SetPosition(p)
    \/ \E s \in Scales : SetScale(s)
    \/ Tick

Spec == Init /\ [][Next]_vars

-----------------------------------------------------------------------------
(* SpecParams: the live parameters of one instance *)

NextParams ==
    \/ \E v \in Times : SetTime(v)
    \/ \E v \in Numbers : SetMagnitude(v)
    \/ \E v \in Numbers : SetLacunarity(v)
    \/ \E v \in Numbers : SetGain(v)
    \/ \E c \in Colors : SetFireColor(c)

SpecParams == Init /\ [][NextParams]_vars

-----------------------------------------------------------------------------
(* SpecPublic: construction, with or without a texture, followed by any of  *)
(* the public operations of the instance                                    *)

NextPublic ==
    \/ \E t \in {Num(MaxTime)} : Update(Some(t))
    \/ Update(None)
    \/ \E v \in {Num(1)} : SetTime(v)
    \/ \E v \in {-One} : SetMagnitude(v)
    \/ \E v \in {0} : SetLacunarity(v)
    \/ \E v \in {25000} : SetGain(v)
    \/ \E c \in Colors : SetFireColor(c)
    \/ \E tex \in TextureIds \cup {Null} : SetFireTex(tex)
    \/ \E v \in {<<Num(2), Num(3), Num(2), 5000>>} : SetNoiseScale(v)
    \/ \E v \in {0} : SetSeed(v)
    \/ \E s \in Scales : SetScale(s)

SpecPublic ==
    InitFrom(PropsSet \cup {NoTexture}, {SeedRange \div 2}) /\ [][NextPublic]_vars

-----------------------------------------------------------------------------
(* SpecReact: FireComponent, NodeFireComponent and the TSL FireComponent    *)
(* around one instance.  Every frame the useFrame callback runs and then    *)
(* the scene is rendered; handlers of the host run between frames.          *)

\* what the onUpdate prop does: absent, or the examples' callback that
\* rescales the fire (fire.scale.setScalar(breathe))
OnUpdates == {"absent", "breathe"}

InitReact ==
    /\ \E k \in Kinds : Constructed(k, OnlyTexture, SeedRange \div 2)
    /\ \E auto \in BOOLEAN, cb \in OnUpdates :
          component = Some([mounted |-> FALSE, autoUpdate |-> auto, onUpdate |-> cb,
                            notified |-> None, hookFire |-> Null])
    /\ peer = 0
    /\ pc = "idle"
    /\ rendered = None
    /\ frag = NoFragment
    /\ glsl = NotRunning
    /\ tsl = NotRunning
    /\ sample = NoSample

\* <fire ref={fireRef} args={[fireProps]}>: the ref is attached on mount
Mount ==
    /\ pc = "idle"
    /\ component # None
    /\ ~component[1].mounted
    /\ component' = Some([component[1] EXCEPT !.mounted = TRUE])
    /\ last' = [op |-> "mount", arg |-> None]
    /\ UNCHANGED <<instVars, nodeVars, clock, peer, pc, rendered, shaderVars>>

\* the fire element is removed: React sets fireRef.current and the forwarded
\* ref back to null
Unmount ==
    /\ pc = "idle"
    /\ component # None
    /\ component[1].mounted
    /\ component' = Some([component[1] EXCEPT !.mounted = FALSE])
    /\ UNCHANGED <<instVars, nodeVars, clock, peer, last, pc, rendered, shaderVars>>

\* a frame callback that leaves autoUpdate out of its test
FrameUpdatesWhenMounted(c) == c.mounted

\* whether the useFrame callback calls update and onUpdate
FrameUpdates(c) == c.mounted /\ c.autoUpdate

\* onUpdate?.(fireRef.current, time): the time onUpdate is called with in a
\* frame at elapsed time t, None when the frame does not call it
OnUpdateArgument(c, t) ==
    IF FrameUpdates(c) /\ c.onUpdate # "absent" THEN Some(t) ELSE None

\* the useFrame callback:
\*   if (fireRef.current && autoUpdate) {
\*     const time = state.clock.getElapsedTime()
\*     fireRef.current.update(time)
\*     onUpdate?.(fireRef.current, time)
\*   }
\* s is the scale the onUpdate callback gives the node, when it sets one
FrameCallback(s) ==
    /\ pc = "idle"
    /\ component # None
    /\ IF FrameUpdates(component[1])
       THEN /\ DoUpdate(Some(clock))
            /\ scale' = IF component[1].onUpdate = "breathe" THEN s ELSE scale
            /\ last' = [op |-> "frame", arg |-> Some(clock)]
       ELSE /\ UNCHANGED <<instVars, matrixWorld, scale>>
            /\ last' = [op |-> "frame", arg |-> None]
    /\ component' = Some([component[1] EXCEPT
                             !.notified = OnUpdateArgument(component[1], clock)])
    /\ pc' = "render"
    /\ UNCHANGED <<position, clock, peer, rendered, shaderVars>>

\* fire: ref.current?.fire || null, evaluated while the host component renders
HookFire(c) == IF c.mounted THEN "fire" ELSE Null

\* useFire() / useNodeFire() called again by a render of the host component
HostRender ==
    /\ pc = "idle"
    /\ component # None
    /\ component' = Some([component[1] EXCEPT
                             !.hookFire = HookFire(component[1])])
    /\ UNCHANGED <<instVars, nodeVars, clock, peer, last, pc, rendered, shaderVars>>

\* an update function that calls update on the ref without testing it
RefUpdateUnguarded(c) == IF c.mounted THEN "update" ELSE "throw"

\* update: (time) => ref.current?.update(time) of the hooks and
\* update: (time) => { if (fireRef.current) fireRef.current.update(time) } of
\* the imperative handle: what a call does
RefUpdateOutcome(c) == IF c.mounted THEN "update" ELSE "none"

\* the update function of the hook or of the imperative ref called with t
RefUpdate(t) ==
    /\ pc = "idle"
    /\ component # None
    /\ IF RefUpdateOutcome(component[1]) = "update"
       THEN DoUpdate(t) /\ pc' = pc
       ELSE /\ UNCHANGED <<instVars, matrixWorld>>
            /\ pc' = IF RefUpdateOutcome(component[1]) = "throw" THEN "thrown" ELSE pc
    /\ last' = [op |-> "refUpdate", arg |-> t]
    /\ UNCHANGED <<position, scale, clock, peer, component, rendered, shaderVars>>

\* renderer.render(scene, camera) at the end of the frame: the scene's world
\* matrices are recomputed and the material's uniforms are read as they are
Render ==
    /\ pc = "render"
    /\ matrixWorld' = UpdateMatrixWorld(position, scale)
    /\ rendered' = Some([invModelMatrix |-> uniforms.invModelMatrix,
                          scale |-> uniforms.scale,
                          matrixWorld |-> matrixWorld',
                          nodeScale |-> scale,
                          updated |-> FrameUpdates(component[1])])
    /\ pc' = "idle"
    /\ UNCHANGED <<instVars, position, scale, clock, peer, last, component, shaderVars>>

NextReact ==
    \/ Mount
    \/ Unmount
    \/ HostRender
    \/ \E t \in {None, Some(Num(1))} : RefUpdate(t)
    \/ SetTime(Num(1))
    \/ \E s \in Scales : FrameCallback(s)
    \/ Render
    \/ \E p \in Positions : SetPosition(p)
    \/ \E s \in Scales : SetScale(s)
    \/ Tick

SpecReact == InitReact /\ [][NextReact]_vars

-----------------------------------------------------------------------------
(* The fragment programs *)

\* The noise kernels (snoise in the GLSL program, mx_noise_float in the TSL
\* graph, triNoise3D in NodeFireShader) are stood for by one function per
\* kernel from positions to [-1, 1]; nothing below depends on its values.
KernelSalt(kernel) ==
    CASE kernel = "simplex" -> 0
      [] kernel = "perlin" -> 4001
      [] OTHER -> 7001
Noise(kernel, p) ==
    ((p[1] * 7 + p[2] * 13 + p[3] * 29 + KernelSalt(kernel)) % (2 * One + 1)) - One

\* the loop of turbulence(p):
\*   sum += abs(noise(p * freq)) * amp; freq *= lacunarity; amp *= gain
RECURSIVE TurbulenceLoop(_, _, _, _, _, _, _)
TurbulenceLoop(kernel, p, lacunarity, gain, n, freq, amp) ==
    IF n <= 0 THEN 0
    ELSE Mul(Abs(Noise(kernel, Scale3(p, freq))), amp)
         + TurbulenceLoop(kernel, p, lacunarity, gain, n - 1,
                          Mul(freq, lacunarity), Mul(amp, gain))

\* a turbulence that updates freq and amp before it adds the term
TurbulenceUpdatedFirst(kernel, p, lacunarity, gain, octaves) ==
    TurbulenceLoop(kernel, p, lacunarity, gain, octaves, lacunarity, gain)

Turbulence(kernel, p, lacunarity, gain, octaves) ==
    TurbulenceLoop(kernel, p, lacunarity, gain, octaves, One, One)

\* texture2D(fireTex, st) on a clamp-to-edge grayscale texture; an unbound
\* texture reads opaque black
Texel(tex, st) ==
    IF tex = Null THEN <<0, 0, 0, One>>
    ELSE LET v == IF tex = "texA" THEN One - (Clamp01(st[1]) + Clamp01(st[2])) \div 2
                  ELSE (Clamp01(st[1]) + Clamp01(st[2])) \div 2
         IN  <<v, v, v, One>>

\* vec2(sqrt(dot(p.xz, p.xz)), p.y)
TexCoord(p) == <<Sqrt(Dot2(<<p[1], p[3]>>, <<p[1], p[3]>>)), p[2]>>

OutOfBounds(a) == a <= 0 \/ a >= One

\* p.y -= (seed + time) * scale.w; p *= scale.xyz
Animate(p, offset, scl) == Mul3(<<p[1], p[2] - offset, p[3]>>, <<scl[1], scl[2], scl[3]>>)

\* st.y += sqrt(st.y) * magnitude * turbulence(p)
Perturbed(y, magnitude, turb) == y + Mul(Mul(Sqrt(y), magnitude), turb)

\* the second test of samplerFire and its texture read
GLSLTexel(tex, x, y) == IF OutOfBounds(y) THEN Zero4 ELSE Texel(tex, <<x, y>>)

\* st.y of samplerFire after st.y += sqrt(st.y) * magnitude * turbulence(p)
GLSLPerturbedY(st, p, scl, u, octaves) ==
    Perturbed(st[2], u.magnitude,
              Turbulence("simplex", Animate(p, TimeOffset(u.seed, u.time, scl), scl),
                         u.lacunarity, u.gain, octaves))

\* samplerFire past its first test
GLSLInside(st, p, scl, u, octaves) ==
    GLSLTexel(u.fireTex, st[1], GLSLPerturbedY(st, p, scl, u, octaves))

\* st of samplerFire where it returns: as computed from p when the first test
\* rejected it, perturbed in y otherwise
GLSLCoordinate(st, p, scl, u, octaves) ==
    IF OutOfBounds(st[1]) \/ OutOfBounds(st[2]) THEN <<st[1], Some(st[2])>>
    ELSE <<st[1], Some(GLSLPerturbedY(st, p, scl, u, octaves))>>

GLSLSampleAt(st, p, scl, u, octaves) ==
    IF OutOfBounds(st[1]) \/ OutOfBounds(st[2]) THEN Zero4
    ELSE GLSLInside(st, p, scl, u, octaves)

\* samplerFire(p, scale) of the GLSL program
SamplerFireGLSL(p, scl, u, octaves) == GLSLSampleAt(TexCoord(p), p, scl, u, octaves)

\* select(outOfBounds, vec4(0.0), texSample) on the perturbed coordinate
TSLSelect(tex, x, y) ==
    IF OutOfBounds(x) \/ OutOfBounds(y) THEN Zero4 ELSE Texel(tex, <<x, y>>)

\* perturbedY = st.y.add(sqrt(st.y).mul(magnitude).mul(turbulence)), for a
\* height that is not negative
TSLPerturbedY(st, p, scl, u, builtinTime, kernel) ==
    Perturbed(st[2], u.magnitude,
              Turbulence(kernel, Animate(p, TimeOffset(u.seed, builtinTime, scl), scl),
                         u.lacunarity, u.gain, TSLOctaves))

TSLSampleAt(st, p, scl, u, builtinTime, kernel, row) ==
    IF st[2] < 0
    THEN IF OutOfBounds(st[1]) THEN Zero4 ELSE Texel(u.fireTex, <<st[1], row>>)
    ELSE TSLSelect(u.fireTex, st[1], TSLPerturbedY(st, p, scl, u, builtinTime, kernel))

\* finalSt = vec2(st.x, perturbedY), the coordinate the texture is read at;
\* its y is None when it is not a number (the square root of a negative height)
TSLCoordinate(st, p, scl, u, builtinTime, kernel) ==
    IF st[2] < 0 THEN <<st[1], None>>
    ELSE <<st[1], Some(TSLPerturbedY(st, p, scl, u, builtinTime, kernel))>>

\* the sampler createSamplerFire builds.  The coordinate is perturbed before
\* any bound is tested, so sqrt(st.y) is taken of a negative height too: it is
\* then not a number, every comparison with the perturbed height is false, and
\* the texture is read at a row that is undefined (row).
SamplerFireTSL(p, scl, u, builtinTime, kernel, row) ==
    TSLSampleAt(TexCoord(p), p, scl, u, builtinTime, kernel, row)

\* triNoise3D(animatedPos, 1.0, time)
TriNoise(q, time) == Abs(Noise("tri", <<q[1], q[2], q[3] + time>>))

NodeSampleAt(st, p, scl, n, row) ==
    IF st[2] < 0 THEN Texel(n.fireTex, <<st[1], row>>)
    ELSE Texel(n.fireTex,
               <<st[1],
                 st[2] + Mul(Sqrt(st[2]),
                             Mul(n.magnitude,
                                 TriNoise(Animate(p, TimeOffset(n.seed, n.time, scl), scl),
                                          n.time)))>>)

\* fireNode of NodeFireShader: no bound is tested
FireNode(p, scl, n, row) == NodeSampleAt(TexCoord(p), p, scl, n, row)

\* localize(rayPos), then lp.y += 0.5 and lp.xz *= 2.0
Recenter(lp) == <<2 * lp[1], lp[2] + One \div 2, 2 * lp[3]>>
LocalPosition(inv, rayPos) == Recenter(Apply(inv, rayPos))

\* rayDir * rayLen: normalize(vWorldPos - cameraPosition) * 0.0288 * length(scale)
RayStepVector(worldPos, camera, scl) ==
    Scale3(Normalize(Sub3(worldPos, camera)), Mul(RayStep, Length3(scl)))

\* an early-out loop test: stop once the accumulated alpha is opaque
LoopContinuesUntilOpaque(i, n, col) == i < n /\ col[4] < One

\* for (int i = 0; i < ITERATIONS; i++) and Loop(int(iterations), ...)
LoopContinues(i, n, col) == i < n

\* col.rgb *= color; col.a = col.r
ApplyTint(col, rgb) ==
    LET r == Mul(col[1], rgb[1])
    IN  <<r, Mul(col[2], rgb[2]), Mul(col[3], rgb[3]), r>>

\* the components of a Color, from its hex value
ColorRGB(c) ==
    <<(((c.hex \div 65536) % 256) * One) \div 255,
      (((c.hex \div 256) % 256) * One) \div 255,
      ((c.hex % 256) * One) \div 255>>

\* one pass of the loop: the ray advances, the sampler is called there (the
\* position is logged in calls) and its result smp is added to the colour
MarchStep(m, stepVec, smp) ==
    [m EXCEPT !.i = @ + 1,
              !.rayPos = Add3(@, stepVec),
              !.col = Add4(@, smp),
              !.calls = Append(@, Add3(m.rayPos, stepVec))]

\* the loop body of main(): rayPos += rayDir * rayLen; lp = localize(rayPos);
\* lp.y += 0.5; lp.xz *= 2.0; col += samplerFire(lp, noiseScale)
GLSLPass(m, stepVec, u, octaves) ==
    MarchStep(m, stepVec,
              SamplerFireGLSL(LocalPosition(u.invModelMatrix[1], Add3(m.rayPos, stepVec)),
                              u.noiseScale, u, octaves))

\* the loop body of the fragment node
TSLPass(m, stepVec, u, builtinTime, kernel, row) ==
    MarchStep(m, stepVec,
              SamplerFireTSL(LocalPosition(u.invModelMatrix[1], Add3(m.rayPos, stepVec)),
                             u.noiseScale, u, builtinTime, kernel, row))

\* main() of the GLSL fragment program
GLSLStep ==
    /\ glsl.pc = "loop"
    /\ LoopContinues(glsl.i, program.iterations, glsl.col)
    /\ glsl' = GLSLPass(glsl, RayStepVector(frag.worldPos, frag.camera, uniforms.scale[1]),
                        uniforms, program.octaves[1])
    /\ UNCHANGED <<instVars, nodeVars, clock, peer, last, reactVars, frag, tsl, sample>>

GLSLFinish ==
    /\ glsl.pc = "loop"
    /\ ~LoopContinues(glsl.i, program.iterations, glsl.col)
    /\ glsl' = [glsl EXCEPT !.pc = "done", !.acc = glsl.col,
                            !.col = ApplyTint(@, ColorRGB(uniforms.color))]
    /\ UNCHANGED <<instVars, nodeVars, clock, peer, last, reactVars, frag, tsl, sample>>

\* the node createFireFragmentNode builds
TSLStep(row) ==
    /\ tsl.pc = "loop"
    /\ LoopContinues(tsl.i, program.iterations, tsl.col)
    /\ tsl' = TSLPass(tsl, RayStepVector(frag.worldPos, frag.camera, uniforms.scale[1]),
                      uniforms, clock, frag.tslKernel, row)
    /\ UNCHANGED <<instVars, nodeVars, clock, peer, last, reactVars, frag, glsl, sample>>

TSLFinish ==
    /\ tsl.pc = "loop"
    /\ ~LoopContinues(tsl.i, program.iterations, tsl.col)
    /\ tsl' = [tsl EXCEPT !.pc = "done", !.acc = tsl.col,
                          !.col = ApplyTint(@, ColorRGB(uniforms.color))]
    /\ UNCHANGED <<instVars, nodeVars, clock, peer, last, reactVars, frag, glsl, sample>>

\* the three density samplers called at the local position p
Sample(p, row) ==
    /\ sample' = [p |-> p,
                  glsl |-> SamplerFireGLSL(p, uniforms.noiseScale, uniforms,
                                           program.octaves[1]),
                  tsl |-> SamplerFireTSL(p, uniforms.noiseScale, uniforms, clock,
                                         frag.tslKernel, row),
                  node |-> FireNode(p, nodes[1].noiseScale, nodes[1], row),
                  turb |-> sample.turb,
                  inputs |-> sample.inputs,
                  st |-> [glsl |-> GLSLCoordinate(TexCoord(p), p, uniforms.noiseScale,
                                                  uniforms, program.octaves[1]),
                          tsl |-> TSLCoordinate(TexCoord(p), p, uniforms.noiseScale,
                                                uniforms, clock, frag.tslKernel)]]
    /\ last' = [op |-> "sample", arg |-> Some(p)]
    /\ UNCHANGED <<instVars, nodeVars, clock, peer, reactVars, frag, glsl, tsl>>

\* the noise function the program of an instance calls
KernelOf(k) ==
    CASE k = "Fire" -> "simplex"
      [] k = "FireTSL" -> "perlin"
      [] OTHER -> "tri"

\* a turbulence whose noise argument drifts with the time uniform
ProgramTurbulenceTimed(k, u, prog, p) ==
    Turbulence(KernelOf(k), <<p[1], p[2], p[3] + u.time>>, u.lacunarity, u.gain,
               prog.octaves[1])

\* turbulence(p) as the program of an instance evaluates it: the octave count
\* compiled in at construction, lacunarity and gain read from the uniforms
ProgramTurbulence(k, u, prog, p) ==
    Turbulence(KernelOf(k), p, u.lacunarity, u.gain, prog.octaves[1])

\* one evaluation; inputs records the lacunarity, gain and octave count it read
EvalTurbulence(p) ==
    /\ kind \in {"Fire", "FireTSL"}
    /\ sample' = [sample EXCEPT !.p = p,
                                !.turb = ProgramTurbulence(kind, uniforms, program, p),
                                !.inputs = <<uniforms.lacunarity, uniforms.gain,
                                             program.octaves[1]>>]
    /\ last' = [op |-> "turbulence", arg |-> Some(p)]
    /\ UNCHANGED <<instVars, nodeVars, clock, peer, reactVars, frag, glsl, tsl>>

-----------------------------------------------------------------------------
(* SpecSampler and SpecShader: the programs run on parameter values drawn   *)
(* from bounded sets.  The three programs are given the same values: the    *)
(* uniforms as an updated Fire or FireTSL holds them, and the nodes         *)
(* createMaterial would build from them.                                    *)

MaxIterations == 2

Clocks == {Num(k) : k \in 0 .. MaxClock}
Magnitudes == {DefaultMagnitude, -One}
NoiseScales == {DefaultNoiseScale, <<Num(2), Num(3), Num(2), 5000>>}
\* the noise function of the TSL graph: mx_noise_float as built, and snoise for
\* the comparison of the two backends on one noise function
Kernels == {"simplex", "perlin"}
RowsRead == {0, One \div 2}

\* local positions: inside the footprint, on and outside its radial bounds,
\* on the axis, and below, at and above the height bounds
LocalPoints ==
    {<<3000, 5000, 4000>>, <<6000, 5000, 8000>>, <<12000, 5000, 0>>, <<0, 5000, 0>>,
     <<3000, 12000, 4000>>, <<3000, -2000, 4000>>, <<3000, 0, 4000>>,
     <<3000, 10000, 4000>>, <<3000, 1000, 4000>>}

\* positions turbulence is evaluated at
TurbulencePoints == {<<3000, 5000, 4000>>, <<6000, 5000, 8000>>, <<3000, -2000, 4000>>}

\* points of the unit box's faces, in object space, and the camera position
FacePoints == {<<1000, -2000, 5000>>, <<5000, 1000, -1000>>}
Camera == <<1000, -2000, Num(3)>>

Parameters(mag, seed, t, ns, lac, gain, tex, c, pos, scl, iters, oct) ==
    /\ kind = "Fire"
    /\ _time = t
    /\ uniforms = [fireTex |-> tex, color |-> ToColor(c), time |-> t, seed |-> seed,
                   invModelMatrix |-> Some(Invert(Compose(pos, scl))),
                   scale |-> Some(scl), noiseScale |-> ns, magnitude |-> mag,
                   lacunarity |-> lac, gain |-> gain,
                   iterations |-> None, octaves |-> None]
    /\ nodes = Some(CreateMaterialNodes(uniforms))
    /\ program = [iterations |-> iters, octaves |-> Some(oct)]
    /\ textures = IF tex = Null THEN LoadedTextures
                  ELSE ConfigureTexture(LoadedTextures, tex)
    /\ position = pos
    /\ scale = scl
    /\ matrixWorld = Compose(pos, scl)
    /\ last = [op |-> "new", arg |-> None]
    /\ component = None
    /\ pc = "idle"
    /\ rendered = None
    /\ sample = NoSample

InitSampler ==
    /\ \E mag \in Magnitudes \cup {0}, seed \in Seeds, t \in Times, ns \in NoiseScales,
          roughness \in {<<DefaultLacunarity, DefaultGain>>, <<Num(3), 8000>>} :
          Parameters(mag, seed, t, ns, roughness[1], roughness[2], "texA",
                     HexColor(DefaultColor), <<0, 0, 0>>, <<One, One, One>>,
                     DefaultIterations, DefaultOctaves)
    /\ clock \in Clocks
    /\ peer = 0
    /\ \E k \in Kernels : frag = [NoFragment EXCEPT !.tslKernel = k]
    /\ glsl = NotRunning
    /\ tsl = NotRunning

NextSampler == \E p \in LocalPoints, row \in RowsRead : Sample(p, row)

SpecSampler == InitSampler /\ [][NextSampler]_vars

\* both programs have entered their main function on the same fragment
InitShader ==
    /\ \E mag \in Magnitudes, t \in Times,
          tex \in {"texA", Null}, c \in {HexColor(DefaultColor), HexColor(16729088)},
          pos \in Positions, scl \in Scales,
          iters \in 0 .. MaxIterations, oct \in {DefaultOctaves, 1} :
          Parameters(mag, SeedRange \div 2, t, DefaultNoiseScale, DefaultLacunarity,
                     DefaultGain, tex, c, pos, scl, iters, oct)
    /\ clock \in Clocks
    /\ peer = 0
    /\ \E f \in FacePoints, k \in Kernels, cam \in {Camera} :
          frag = [worldPos |-> Apply(matrixWorld, f), camera |-> cam, tslKernel |-> k]
    /\ glsl = [NotRunning EXCEPT !.pc = "loop", !.rayPos = frag.worldPos]
    /\ tsl = [NotRunning EXCEPT !.pc = "loop", !.rayPos = frag.worldPos]

NextShader ==
    \/ GLSLStep
    \/ GLSLFinish
    \/ \E row \in RowsRead : TSLStep(row)
    \/ TSLFinish

SpecShader == InitShader /\ [][NextShader]_vars

\* SpecTurbulence: turbulence evaluated on an instance whose lacunarity and
\* gain the host changes
NextTurbulence ==
    \/ \E v \in Numbers : SetLacunarity(v)
    \/ \E v \in Numbers : SetGain(v)
    \/ \E t \in {Num(1)} : Update(Some(t))
    \/ \E p \in TurbulencePoints : EvalTurbulence(p)

SpecTurbulence == Init /\ [][NextTurbulence]_vars

-----------------------------------------------------------------------------
(* Claims about update and the live parameters *)

\* C1: on Fire and FireTSL, after update(t) the time getter yields t and the
\* instance's time uniform holds t, for every t, 0 and earlier times included.
C1_UpdateStoresTime ==
    (kind \in {"Fire", "FireTSL"} /\ last.op = "update" /\ last.arg # None)
        => (GetTime = last.arg[1] /\ MaterialValue("time") = last.arg)

\* update(0) was called on a rescaled FireTSL
C1_Witness ==
    /\ kind = "FireTSL"
    /\ last = [op |-> "update", arg |-> Some(0)]
    /\ GetTime = 0
    /\ uniforms.scale # Some(<<One, One, One>>)

\* C2: update() with no argument leaves the time getter and the time the
\* material holds as they were.
C2_UpdateNoArgKeepsTime ==
    [][Update(None) => (GetTime' = GetTime /\ MaterialValue("time")' = MaterialValue("time"))]_vars

\* update() was called after the time had been set to 2
C2_Witness == last = [op |-> "update", arg |-> None] /\ GetTime = Num(2)

\* C3: after every update, the inverse-transform uniform is the inverse of the
\* node's world matrix and the scale uniform is the node's scale, on Fire,
\* FireTSL and NodeFire.
C3_UpdateRefreshesTransform ==
    last.op = "update"
        => /\ uniforms.invModelMatrix = Some(Invert(Compose(position, scale)))
           /\ uniforms.scale = Some(scale)

\* C5: assigning x to time, magnitude, lacunarity or gain and reading the
\* property back returns x, whatever x is.
C5_SetGetRoundTrip ==
    /\ last.op = "time" => GetTime = last.arg[1]
    /\ last.op = "magnitude" => GetMagnitude = last.arg[1]
    /\ last.op = "lacunarity" => GetLacunarity = last.arg[1]
    /\ last.op = "gain" => GetGain = last.arg[1]

\* a negative magnitude was assigned
C5_Witness == last = [op |-> "magnitude", arg |-> Some(-One)] /\ GetMagnitude = -One

\* C6: assigning time, tint, magnitude, lacunarity or gain changes the value
\* the bound material holds for that parameter, on Fire, FireTSL and NodeFire.
C6_SetterReachesMaterial ==
    /\ last.op \in {"time", "magnitude", "lacunarity", "gain"}
          => MaterialValue(last.op) = last.arg
    /\ last.op = "fireColor" => MaterialValue("color") = Some(ToColor(last.arg[1]))

\* C7: after update(t) or time = t, the offset the sampler of the GLSL and of
\* the TSL backend uses at the next render is (seed + t) * noiseScale.w.
C7_OffsetUsesInstanceTime ==
    (kind \in {"Fire", "FireTSL"} /\ last.op \in {"update", "time"} /\ last.arg # None)
        => SamplerOffset = Mul(uniforms.seed + last.arg[1], uniforms.noiseScale[4])

\* C4: in the React components with autoUpdate on, at each render the
\* inverse-transform and scale uniforms match the node's transform and scale at
\* that moment, also when onUpdate changed them during the frame.  Stated for
\* the two classes that have these uniforms.
C4_RenderSeesFreshTransform ==
    (kind \in {"Fire", "FireTSL"} /\ rendered # None /\ rendered[1].updated)
        => /\ rendered[1].invModelMatrix = Some(Invert(rendered[1].matrixWorld))
           /\ rendered[1].scale = Some(rendered[1].nodeScale)

-----------------------------------------------------------------------------
(* Claims about the fragment programs *)

\* C8: with the same noise function in both and octaves = 3, the GLSL program
\* and the TSL fragment node give a fragment the same output colour, whatever
\* the fragment, the camera and the parameter values are.
C8_BackendsAgree ==
    (glsl.pc = "done" /\ tsl.pc = "done" /\ frag.tslKernel = "simplex"
        /\ program.octaves = Some(TSLOctaves))
        => glsl.col = tsl.col

\* the texture coordinate of p is outside the open unit square
OutsideFlame(p) == OutOfBounds(TexCoord(p)[1]) \/ OutOfBounds(TexCoord(p)[2])

\* C9: at a local position whose radial coordinate or height is outside (0,1),
\* the GLSL sampler, the TSL sampler and fireNode all return the all-zero
\* sample, for every magnitude, seed, time and noise scale.
C9_OutOfBoundsSampleIsZero ==
    (last.op = "sample" /\ OutsideFlame(sample.p))
        => (sample.glsl = Zero4 /\ sample.tsl = Zero4 /\ sample.node = Zero4)

\* the sampler calls of a march m so far: one per pass, the k-th of them at
\* start + k * stepLength * direction, and all `iterations` of them once done
MarchedInFull(m) ==
    /\ m.i <= program.iterations
    /\ Len(m.calls) = m.i
    /\ \A k \in 1 .. Len(m.calls) :
          m.calls[k] = Add3(frag.worldPos,
                            Scale3(RayStepVector(frag.worldPos, frag.camera,
                                                 uniforms.scale[1]), k * One))
    /\ m.pc = "done" => m.i = program.iterations

\* C10: the ray-march loop of the GLSL program and of the TSL node calls the
\* sampler exactly `iterations` times, the k-th time at start + k * step, never
\* at the start itself, and does not leave early whatever it has accumulated.
C10_LoopRunsAllIterations == MarchedInFull(glsl) /\ MarchedInFull(tsl)

\* both programs finished a march of several passes that gathered colour from
\* the flame
C10_Witness ==
    /\ glsl.pc = "done"
    /\ tsl.pc = "done"
    /\ program.iterations >= 2
    /\ Len(glsl.calls) = program.iterations
    /\ Len(tsl.calls) = program.iterations
    /\ glsl.col # Zero4
    /\ tsl.col # Zero4
    /\ glsl.calls[1] # frag.worldPos

\* the output the claim describes for a finished march m: the summed samples
\* times the tint, with the summed red channel itself as alpha
TintedWithDensityAlpha(m, tint) ==
    m.col = <<Mul(m.acc[1], tint[1]), Mul(m.acc[2], tint[2]), Mul(m.acc[3], tint[3]),
              m.acc[1]>>

\* C11: the output RGB is the per-channel sum of the samples times the tint and
\* the output alpha is the summed red channel of the samples, for every tint,
\* in the GLSL program and in the TSL node.
C11_OutputIsTintedSum ==
    /\ glsl.pc = "done" => TintedWithDensityAlpha(glsl, ColorRGB(uniforms.color))
    /\ tsl.pc = "done" => TintedWithDensityAlpha(tsl, ColorRGB(uniforms.color))

\* a to the power i
RECURSIVE Pow(_, _)
Pow(a, i) == IF i = 0 THEN One ELSE Mul(Pow(a, i - 1), a)

\* the sum over i = 0 .. n-1 of |noise(p * lacunarity^i)| * gain^i
RECURSIVE OctaveSum(_, _, _, _, _)
OctaveSum(kernel, p, lacunarity, gain, n) ==
    IF n = 0 THEN 0
    ELSE OctaveSum(kernel, p, lacunarity, gain, n - 1)
         + Mul(Abs(Noise(kernel, Scale3(p, Pow(lacunarity, n - 1)))), Pow(gain, n - 1))

-----------------------------------------------------------------------------
(* Claims about construction and the fixed parameters *)

\* C13: the texture an instance holds, bound at construction or through the
\* texture setter of NodeFire, has linear mag and min filters and clamp-to-edge
\* wrap on both axes, whatever its settings were before.
C13_BoundTextureIsLinearClamp ==
    (pc # "thrown" /\ uniforms.fireTex # Null) => textures[uniforms.fireTex] = LinearClamp

\* a NodeFire built on one texture was given the other, which repeated and
\* used mipmaps before
C13_Witness ==
    /\ kind = "NodeFire"
    /\ last = [op |-> "fireTex", arg |-> Some("texB")]
    /\ textures["texA"] = LinearClamp
    /\ textures["texB"] = LinearClamp

\* C14: constructing an instance without a density texture, and assigning null
\* through the texture setter, raises no error and leaves an instance whose
\* texture reference is null.
C14_NoTextureIsNoError ==
    ((last.op = "new" /\ uniforms.fireTex = Null) \/ last = [op |-> "fireTex", arg |-> Some(Null)])
        => (pc = "idle" /\ uniforms.fireTex = Null)

\* where an instance keeps its loop counts: NodeFire in its uniforms record,
\* Fire and FireTSL in the program built at construction
StoredIterations == IF kind = "NodeFire" THEN uniforms.iterations ELSE Some(program.iterations)
StoredOctaves == IF kind = "NodeFire" THEN uniforms.octaves ELSE program.octaves

\* the instance was just constructed, with a texture
JustConstructed == last.op = "new" /\ last.arg # None /\ last.arg[1].fireTex # Null

\* a supplied magnitude, lacunarity and gain are stored as given
StoresSuppliedNumbers(props) ==
    /\ props.magnitude # None => uniforms.magnitude = props.magnitude[1]
    /\ props.lacunarity # None => uniforms.lacunarity = props.lacunarity[1]
    /\ props.gain # None => uniforms.gain = props.gain[1]
    /\ props.iterations # None => StoredIterations = props.iterations

\* C15: constructing Fire, FireTSL or NodeFire with a negative magnitude, a gain
\* outside (0,1), a lacunarity of 1 or less, or 0 iterations or octaves raises
\* no error and stores every supplied value as given.
C15_SuppliedValuesStored ==
    JustConstructed
        => /\ pc = "idle"
           /\ StoresSuppliedNumbers(last.arg[1])
           /\ last.arg[1].octaves # None => StoredOctaves = last.arg[1].octaves

\* C15 as amended: the same, except that FireTSL does not store a supplied
\* octave count.
C15_SuppliedValuesStoredButTSLOctaves ==
    JustConstructed
        => /\ pc = "idle"
           /\ StoresSuppliedNumbers(last.arg[1])
           /\ (kind # "FireTSL" /\ last.arg[1].octaves # None)
                 => StoredOctaves = last.arg[1].octaves

\* a Fire built with a negative magnitude, a gain above 1, a lacunarity below
\* 1 and counts of 0
C15_Witness ==
    /\ kind = "Fire"
    /\ last = [op |-> "new", arg |-> Some(Degenerate)]
    /\ uniforms.magnitude = -One
    /\ program = [iterations |-> 0, octaves |-> Some(0)]

\* the value the claim expects for an optional argument
SuppliedOr(opt, d) == IF opt = None THEN d ELSE opt[1]

\* the hex value of a colour argument
HexOf(c) == IF c.type = "string" THEN NamedColor(c.css) ELSE c.hex

\* C16: after construction each of magnitude, lacunarity, gain, noiseScale,
\* iterations, octaves and tint reads as the supplied value when one was
\* supplied, 0 included, and as its default otherwise, and time reads 0.
\* Stated for Fire and NodeFire, the classes that keep all seven.
C16_SuppliedOrDefault ==
    (JustConstructed /\ kind \in {"Fire", "NodeFire"})
        => /\ GetMagnitude = SuppliedOr(last.arg[1].magnitude, DefaultMagnitude)
           /\ GetLacunarity = SuppliedOr(last.arg[1].lacunarity, DefaultLacunarity)
           /\ GetGain = SuppliedOr(last.arg[1].gain, DefaultGain)
           /\ uniforms.noiseScale = SuppliedOr(last.arg[1].noiseScale, DefaultNoiseScale)
           /\ StoredIterations = Some(SuppliedOr(last.arg[1].iterations, DefaultIterations))
           /\ StoredOctaves = Some(SuppliedOr(last.arg[1].octaves, DefaultOctaves))
           /\ GetFireColor.type = "Color"
           /\ GetFireColor.hex = SuppliedOr(last.arg[1].color, HexColor(DefaultColor)).hex
           /\ GetTime = 0

\* a Fire built with a magnitude of 0, one octave and a tint, the rest left out
C16_Witness ==
    /\ kind = "Fire"
    /\ last = [op |-> "new", arg |-> Some(Partial)]
    /\ GetMagnitude = 0
    /\ GetGain = DefaultGain
    /\ program = [iterations |-> DefaultIterations, octaves |-> Some(1)]

\* the Color the claim expects the getter to return once c was taken in: c
\* itself when it is a Color object, else a new Color with c's value
ColorTakenIn(c, got) ==
    IF c.type = "Color" THEN got = c
    ELSE got.type = "Color" /\ got.ref = "new" /\ got.hex = HexOf(c)

\* C17: the fireColor getter returns a Color after construction and after any
\* fireColor assignments; it is the assigned object itself when a Color object
\* was given, and otherwise a new Color built from the hex integer or string.
C17_FireColorIsColor ==
    /\ GetFireColor.type = "Color"
    /\ last.op = "fireColor" => ColorTakenIn(last.arg[1], GetFireColor)
    /\ (JustConstructed /\ last.arg[1].color # None)
          => ColorTakenIn(last.arg[1].color[1], GetFireColor)

\* a Color object was assigned after the magnitude setter had run
C17_Witness ==
    /\ last.op = "fireColor"
    /\ last.arg[1].type = "Color"
    /\ GetFireColor.ref = "c1"
    /\ uniforms.magnitude = -One

\* what can be read from an instance: NodeFire has getters for both counts,
\* Fire keeps them in material.defines, FireTSL keeps neither (the iteration
\* count is captured by its fragment node, the octave count is not taken)
ReadableIterations ==
    CASE kind = "NodeFire" -> uniforms.iterations
      [] kind = "Fire" -> Some(program.iterations)
      [] OTHER -> None
ReadableOctaves ==
    CASE kind = "NodeFire" -> uniforms.octaves
      [] kind = "Fire" -> program.octaves
      [] OTHER -> None

\* no step changes a count, where the instance keeps it or in the program
CountsUnchanged ==
    /\ program' = program
    /\ uniforms'.iterations = uniforms.iterations
    /\ uniforms'.octaves = uniforms.octaves

\* C18: both counts can be read back from a constructed Fire, FireTSL or
\* NodeFire as the values given at construction, and no public operation,
\* update or setter, changes either of them.
C18_CountsReadableAndFixed ==
    /\ [](JustConstructed
            => /\ ReadableIterations
                    = Some(SuppliedOr(last.arg[1].iterations, DefaultIterations))
               /\ ReadableOctaves = Some(SuppliedOr(last.arg[1].octaves, DefaultOctaves)))
    /\ [][CountsUnchanged]_vars

\* C18 as amended: the counts read back from Fire and NodeFire, and no public
\* operation changes a count on any of the three classes.
C18_CountsFixed ==
    /\ []((JustConstructed /\ kind # "FireTSL")
            => /\ ReadableIterations
                    = Some(SuppliedOr(last.arg[1].iterations, DefaultIterations))
               /\ ReadableOctaves = Some(SuppliedOr(last.arg[1].octaves, DefaultOctaves)))
    /\ [][CountsUnchanged]_vars

\* update ran on a NodeFire built with 30 iterations and 5 octaves whose
\* magnitude had been assigned
C18_Witness ==
    /\ kind = "NodeFire"
    /\ last.op = "update"
    /\ uniforms.magnitude = -One
    /\ ReadableIterations = Some(30)
    /\ ReadableOctaves = Some(5)

\* C19: on FireTSL an octaves value supplied at construction raises no error
\* and has no effect: the turbulence always sums exactly 3 octaves.
C19_TSLOctavesFixed ==
    kind = "FireTSL"
        => /\ pc = "idle"
           /\ program.octaves = Some(3)
           /\ last.op = "turbulence"
                 => sample.turb = OctaveSum("perlin", sample.p, uniforms.lacunarity,
                                            uniforms.gain, 3)

\* turbulence was evaluated on a FireTSL built from the scenario that asks for
\* 5 octaves (and 30 iterations), and it is not 0
C19_Witness ==
    /\ kind = "FireTSL"
    /\ last.op = "turbulence"
    /\ program.iterations = 30
    /\ sample.turb # 0

-----------------------------------------------------------------------------
(* Claims about the frame of update *)

\* everything but time, worldToLocal and objectScale is as it was
OnlyTimeAndTransformChange ==
    /\ \A f \in {"fireTex", "color", "magnitude", "lacunarity", "gain", "noiseScale",
                 "seed", "iterations", "octaves"} : uniforms'[f] = uniforms[f]
    /\ program' = program
    /\ nodes' = nodes
    /\ textures' = textures

\* C20: update changes only time, and only when given an argument, the
\* inverse transform and the scale uniform: texture binding, tint, magnitude,
\* lacunarity, gain, noiseScale, seed, iterations and octaves are the same
\* after every call as before it.
C20_UpdateFrame ==
    [][/\ (Update(None) \/ \E t \in Times : Update(Some(t))) => OnlyTimeAndTransformChange
       /\ Update(None) => (uniforms'.time = uniforms.time /\ _time' = _time)]_vars

\* update(t) ran on a rescaled Fire whose magnitude and tint had been assigned
C20_Witness ==
    /\ kind = "Fire"
    /\ last = [op |-> "update", arg |-> Some(Num(MaxTime))]
    /\ uniforms.scale = Some(<<Num(2), Num(4), Num(4)>>)
    /\ uniforms.magnitude = -One
    /\ uniforms.color.ref = "c1"

-----------------------------------------------------------------------------
(* Claims about repeated calls, the hooks and the frames *)

\* C21: with the node unchanged in between, a second update() after update(),
\* and a second update(t) after update(t), leaves the state of the first:
\* time, time uniform, inverse transform, scale and every other parameter.
C21_UpdateIdempotent ==
    [][(last.op = "update" /\ Update(last.arg))
          => (instVars' = instVars /\ nodeVars' = nodeVars)]_vars

\* update(1) ran on a rescaled and moved Fire
C21_Witness ==
    /\ kind = "Fire"
    /\ last = [op |-> "update", arg |-> Some(Num(1))]
    /\ _time = Num(1)
    /\ uniforms.scale = Some(<<Num(2), Num(4), Num(4)>>)
    /\ matrixWorld.t = <<Num(1), 0, Num(-2)>>

-----------------------------------------------------------------------------
(* Claims about the React components and hooks *)

\* a step of the useFrame callback
FrameStep == pc = "idle" /\ pc' = "render"

\* C24: while the component is mounted with autoUpdate true, every frame
\* callback calls update(t) on the instance with the clock's elapsed time t;
\* with autoUpdate false the frame callback leaves the instance alone, and its
\* time changes only in a call of the ref's update function or in an assignment
\* to the instance's time.
C24_AutoUpdate ==
    [][/\ (FrameStep /\ component[1].mounted /\ component[1].autoUpdate)
            => /\ last' = [op |-> "frame", arg |-> Some(clock)]
               /\ _time' = clock
               /\ uniforms'.time = clock
               /\ matrixWorld' = UpdateMatrixWorld(position, scale)
       /\ (FrameStep /\ ~component[1].autoUpdate)
            => /\ last' = [op |-> "frame", arg |-> None]
               /\ instVars' = instVars
               /\ matrixWorld' = matrixWorld
       /\ (~component[1].autoUpdate /\ (_time' # _time \/ uniforms'.time # uniforms.time))
            => last'.op \in {"refUpdate", "time"}]_vars

C24_Witness ==
    /\ component[1].mounted
    /\ component[1].autoUpdate
    /\ last = [op |-> "frame", arg |-> Some(Num(1))]
    /\ _time = Num(1)
    /\ pc = "render"

\* C25: the onUpdate callback, when provided, is called once in every frame
\* while the component is mounted, whatever autoUpdate is, with the fire
\* instance and the frame's elapsed time.
C25_OnUpdateEveryFrame ==
    (pc = "render" /\ component[1].mounted /\ component[1].onUpdate # "absent")
        => component[1].notified = Some(clock)

\* C26: once the component that received the hook's ref has mounted, the fire
\* field of the object the hook returned is the mounted fire instance; it is
\* null only until mounting.
C26_HookFireIsMounted ==
    component[1].mounted => component[1].hookFire = "fire"

\* C27: a call of the update function of useFire, useNodeFire or the
\* imperative ref while no fire instance is mounted changes nothing and
\* raises no error.
C27_RefUpdateUnmountedIsNoOp ==
    [][(~component[1].mounted /\ \E t \in {None, Some(Num(1))} : RefUpdate(t))
          => /\ instVars' = instVars
             /\ nodeVars' = nodeVars
             /\ pc' = "idle"]_vars

C27_Witness ==
    /\ ~component[1].mounted
    /\ last = [op |-> "refUpdate", arg |-> Some(Num(1))]
    /\ _time = 0
    /\ uniforms.time = 0
    /\ pc = "idle"

-----------------------------------------------------------------------------
(* Claims about time, the setters' frame and the sampled coordinates *)

\* C28: in every state reached from construction by update(t), update() and
\* time assignments, the time getter of a Fire or FireTSL returns the value of
\* the time uniform of its material; both are 0 right after construction.
C28_TimeGetterIsUniform ==
    kind \in {"Fire", "FireTSL"}
        => /\ MaterialValue("time") = Some(GetTime)
           /\ last.op = "new" => GetTime = 0

C28_Witness ==
    /\ kind = "FireTSL"
    /\ last = [op |-> "update", arg |-> None]
    /\ GetTime = Num(2)
    /\ uniforms.time = Num(2)

\* an assignment to one parameter left every other parameter, the seed, the
\* texture binding, worldToLocal, objectScale and the node as they were
SetterFrame(field) ==
    /\ \A f \in DOMAIN uniforms \ {field} : uniforms'[f] = uniforms[f]
    /\ field # "time" => _time' = _time
    /\ program' = program
    /\ nodes' = nodes
    /\ textures' = textures
    /\ nodeVars' = nodeVars

\* C29: assigning time, fireColor, magnitude, lacunarity or gain changes that
\* parameter alone, and no operation other than update changes worldToLocal
\* or objectScale.
C29_SettersChangeOwnParameter ==
    [][/\ (\E v \in Times : SetTime(v)) => SetterFrame("time")
       /\ (\E c \in Colors : SetFireColor(c)) => SetterFrame("color")
       /\ (\E v \in Numbers : SetMagnitude(v)) => SetterFrame("magnitude")
       /\ (\E v \in Numbers : SetLacunarity(v)) => SetterFrame("lacunarity")
       /\ (\E v \in Numbers : SetGain(v)) => SetterFrame("gain")
       /\ (uniforms'.invModelMatrix # uniforms.invModelMatrix \/ uniforms'.scale # uniforms.scale)
            => (Update(None) \/ \E t \in Times : Update(Some(t)))]_vars

\* gain assigned on a rescaled, updated Fire whose magnitude and lacunarity
\* had been assigned
C29_Witness ==
    /\ kind = "Fire"
    /\ last = [op |-> "gain", arg |-> Some(25000)]
    /\ uniforms.gain = 25000
    /\ uniforms.lacunarity = 0
    /\ uniforms.magnitude = -One
    /\ uniforms.scale = Some(<<Num(2), Num(4), Num(4)>>)

\* a coordinate the texture is read at lies inside the open unit square
InsideFlame(st) ==
    /\ 0 < st[1] /\ st[1] < One
    /\ st[2] # None
    /\ 0 < st[2][1] /\ st[2][1] < One

\* C30: whenever the GLSL or the TSL density sampler returns a non-zero sample,
\* the texture coordinate it used, after the perturbation, has 0 < st.x < 1
\* and 0 < st.y < 1, and its st.x is the radial coordinate of the position,
\* which the perturbation leaves alone.
C30_NonZeroSampleInBounds ==
    last.op = "sample"
        => /\ sample.glsl # Zero4
                => /\ InsideFlame(sample.st.glsl)
                   /\ sample.st.glsl[1] = TexCoord(sample.p)[1]
           /\ sample.tsl # Zero4
                => /\ InsideFlame(sample.st.tsl)
                   /\ sample.st.tsl[1] = TexCoord(sample.p)[1]


====
